---- MODULE Spec2Model ----
(***************************************************************************)
(* Model of rust-srec/frontend/find_missing.py: the missing-translation    *)
(* scanner.  The script reads a gettext catalog into a list of lines,      *)
(* walks the list once, and for every line whose trimmed text is           *)
(* `msgstr ""` that is not directly preceded by a line whose trimmed text  *)
(* is `msgid ""` it prints a location line followed by the preceding       *)
(* `msgid`-prefixed lines, bottom-up.  Any exception is caught and its     *)
(* description printed.                                                    *)
(*                                                                         *)
(* Text is modelled character by character: a line is a sequence of        *)
(* one-character strings, so that str.strip(), str.startswith() and the    *)
(* f-string formatting are computed and not assumed.                       *)
(***************************************************************************)
EXTENDS Integers, Sequences, FiniteSets

VARIABLES
    file,    \* the catalog on disk: [status, lines]
    rerun,   \* FALSE during the first execution of the script, TRUE during the second
    prev,    \* standard output of the first execution, kept for comparison
    pc,      \* position of the script: "try", "for", "while", "except", "done", "crashed"
    lines,   \* the list bound by `lines = f.readlines()`
    i,       \* counter of enumerate(lines): index of the line being examined
    j,       \* position of the backward context walk
    e,       \* description of the caught exception
    out,     \* standard output of the current execution: a sequence of printed lines
    reads    \* history: the subscripts used on `lines` in the current execution

vars == <<file, rerun, prev, pc, lines, i, j, e, out, reads>>

----------------------------------------------------------------------------
(* Bounds of the model. *)

MaxLines == 3

MaxEntries == 2

----------------------------------------------------------------------------
(* Text *)

W_msgid == <<"m", "s", "g", "i", "d">>

W_msgstr == <<"m", "s", "g", "s", "t", "r">>

W_empty == <<" ", "\"", "\"">>

W_hello == <<" ", "\"", "H", "e", "l", "l", "o", "\"">>

W_hi == <<" ", "\"", "H", "i", "\"">>

W_bonjour == <<" ", "\"", "B", "o", "n", "j", "o", "u", "r", "\"">>

EOL == <<"\n">>

\* the literal 'msgstr ""' of the marker test
MsgstrEmpty == W_msgstr \o W_empty

\* the literal 'msgid ""' of the header test
MsgidEmpty == W_msgid \o W_empty

\* the literal "msgid" of the context walk
MsgidPrefix == W_msgid

\* characters str.strip() removes (the ASCII whitespace)
Whitespace == {" ", "\t", "\n", "\r", "\f"}

RECURSIVE LStrip(_)
LStrip(s) == IF s = <<>> THEN s
             ELSE IF Head(s) \in Whitespace THEN LStrip(Tail(s)) ELSE s

RECURSIVE RStrip(_)
RStrip(s) == IF s = <<>> THEN s
             ELSE IF s[Len(s)] \in Whitespace THEN RStrip(SubSeq(s, 1, Len(s) - 1)) ELSE s

\* str.strip()
Strip(s) == RStrip(LStrip(s))

\* str.startswith(p)
StartsWith(s, p) == Len(s) >= Len(p) /\ SubSeq(s, 1, Len(p)) = p

Digit(d) == <<"0", "1", "2", "3", "4", "5", "6", "7", "8", "9">>[d + 1]

\* decimal formatting of a non-negative integer inside an f-string
RECURSIVE ToStr(_)
ToStr(n) == IF n < 10 THEN <<Digit(n)>> ELSE ToStr(n \div 10) \o <<Digit(n % 10)>>

\* lines[k] of a Python list: a negative subscript counts from the end
Index(ls, k) == IF k >= 0 THEN ls[k + 1] ELSE ls[Len(ls) + k + 1]

----------------------------------------------------------------------------
(* The catalogs the script is run on.  readlines() yields lines that end   *)
(* with "\n", except possibly the last one, and never an empty line.       *)

L_msgid_empty == MsgidEmpty \o EOL

L_msgstr_empty == MsgstrEmpty \o EOL

L_msgid_hello == W_msgid \o W_hello \o EOL

L_msgid_hi == W_msgid \o W_hi \o EOL

L_msgstr_bonjour == W_msgstr \o W_bonjour \o EOL

L_blank == EOL

L_comment == <<"#">> \o EOL

L_indented_msgstr_empty == <<" ", " ">> \o MsgstrEmpty \o <<" ">> \o EOL

L_indented_msgid_empty == <<"\t">> \o MsgidEmpty \o EOL

L_msgstr_empty_noeol == MsgstrEmpty

TerminatedLines ==
    {L_msgid_empty, L_msgstr_empty, L_msgid_hello, L_msgstr_bonjour, L_blank,
     L_indented_msgstr_empty, L_indented_msgid_empty}

LastLines == TerminatedLines \cup {L_msgstr_empty_noeol}

RECURSIVE SeqsUpTo(_, _)
SeqsUpTo(S, n) == IF n = 0 THEN {<<>>}
                  ELSE LET shorter == SeqsUpTo(S, n - 1)
                       IN  shorter \cup {Append(s, x) : s \in shorter, x \in S}

\* every text of at most MaxLines lines over the line alphabet
SmallTexts ==
    {<<>>} \cup {Append(s, x) : s \in SeqsUpTo(TerminatedLines, MaxLines - 1), x \in LastLines}

\* a single-line entry: optional separator, a non-empty msgid, a msgstr
Separators == {<<>>, <<L_blank>>, <<L_comment>>}

EntryMsgids == {L_msgid_hello, L_msgid_hi}

EntryMsgstrs == {L_msgstr_empty, L_msgstr_bonjour}

Entries == {sep \o <<mi, ms>> : sep \in Separators, mi \in EntryMsgids, ms \in EntryMsgstrs}

RECURSIVE Flatten(_)
Flatten(ss) == IF ss = <<>> THEN <<>> ELSE Head(ss) \o Flatten(Tail(ss))

HeaderPair == <<L_msgid_empty, L_msgstr_empty>>

\* the header pair followed by at most MaxEntries single-line entries
CatalogTexts == {HeaderPair \o Flatten(es) : es \in SeqsUpTo(Entries, MaxEntries)}

FailureKinds == {"missing", "denied", "undecodable"}

Files ==
    {[status |-> "ok", lines |-> t] : t \in SmallTexts \cup CatalogTexts}
    \cup {[status |-> k, lines |-> <<>>] : k \in FailureKinds}

----------------------------------------------------------------------------
(* Faulty variants of the script's expressions.  Each property below is    *)
(* also run against one of them, and must then fail.                       *)

\* the marker test without strip()
IsMarker_unstripped(line) == line = MsgstrEmpty \o EOL

\* the marker test on the keyword only
IsMarker_keyword(line) == StartsWith(Strip(line), W_msgstr)

\* the header test tied to the top of the file
IsHeader_toponly(ls, k) ==
    IF k = 1
    THEN [val |-> Strip(Index(ls, k - 1)) = MsgidEmpty, rd |-> {k - 1}]
    ELSE [val |-> FALSE, rd |-> {}]

\* the header test without `i > 0`
IsHeader_unguarded(ls, k) ==
    [val |-> Strip(Index(ls, k - 1)) = MsgidEmpty, rd |-> {k - 1}]

\* the walk test on the trimmed line
WalkGuard_trimmed(ls, k) ==
    IF k >= 0
    THEN [val |-> StartsWith(Strip(Index(ls, k)), MsgidPrefix), rd |-> {k}]
    ELSE [val |-> FALSE, rd |-> {}]

\* the walk without `j -= 1`
WalkNext_stuck(k) == k

\* the context line without strip()
ContextLine_unstripped(line) ==
    <<" ", " ", "C", "o", "n", "t", "e", "x", "t", ":", " ">> \o line

\* output collected newest first
Emit_prepend(o, s) == <<s>> \o o

\* `except OSError`
Catches_oserror(status) == status \in {"missing", "denied"}

----------------------------------------------------------------------------
(* The expressions of the script *)

\* line.strip() == 'msgstr ""'
IsMarker(line) == Strip(line) = MsgstrEmpty

\* i > 0 and lines[i-1].strip() == 'msgid ""', with the subscripts it evaluates
IsHeader(ls, k) ==
    IF k > 0
    THEN [val |-> Strip(Index(ls, k - 1)) = MsgidEmpty, rd |-> {k - 1}]
    ELSE [val |-> FALSE, rd |-> {}]

\* j >= 0 and lines[j].startswith("msgid"), with the subscripts it evaluates
WalkGuard(ls, k) ==
    IF k >= 0
    THEN [val |-> StartsWith(Index(ls, k), MsgidPrefix), rd |-> {k}]
    ELSE [val |-> FALSE, rd |-> {}]

\* j -= 1
WalkNext(k) == k - 1

\* f"Line {i+1}: {line.strip()}"
LocationLine(k, line) ==
    <<"L", "i", "n", "e", " ">> \o ToStr(k + 1) \o <<":", " ">> \o Strip(line)

\* f"  Context: {lines[j].strip()}"
ContextLine(line) ==
    <<" ", " ", "C", "o", "n", "t", "e", "x", "t", ":", " ">> \o Strip(line)

\* print(s)
Emit(o, s) == Append(o, s)

\* str(e) of the exception open()/readlines() raises
Describe(status) ==
    CASE status = "missing" -> <<"[", "E", "r", "r", "n", "o", " ", "2", "]">>
      [] status = "denied" -> <<"[", "E", "r", "r", "n", "o", " ", "1", "3", "]">>
      [] status = "undecodable" -> <<"'", "u", "t", "f", "-", "8", "'">>

\* `except Exception` catches FileNotFoundError, PermissionError and UnicodeDecodeError
Catches(status) == status \in {"missing", "denied", "undecodable"}

----------------------------------------------------------------------------
(* The script, one action per step *)

Init ==
    /\ file \in Files
    /\ rerun = FALSE
    /\ prev = <<>>
    /\ pc = "try"
    /\ lines = <<>>
    /\ i = 0
    /\ j = 0
    /\ e = <<>>
    /\ out = <<>>
    /\ reads = {}

\* with open(...) as f: lines = f.readlines()
ReadLines ==
    /\ pc = "try"
    /\ file.status = "ok"
    /\ lines' = file.lines
    /\ i' = 0
    /\ pc' = "for"
    /\ UNCHANGED <<file, rerun, prev, j, e, out, reads>>

\* open() or readlines() raises
OpenFails ==
    /\ pc = "try"
    /\ file.status # "ok"
    /\ e' = Describe(file.status)
    /\ pc' = IF Catches(file.status) THEN "except" ELSE "crashed"
    /\ UNCHANGED <<file, rerun, prev, lines, i, j, out, reads>>

\* except Exception as e: print(e)
PrintError ==
    /\ pc = "except"
    /\ out' = Emit(out, e)
    /\ pc' = "done"
    /\ UNCHANGED <<file, rerun, prev, lines, i, j, e, reads>>

\* a loop iteration on a line that is not an entry marker
ForOther ==
    /\ pc = "for"
    /\ i < Len(lines)
    /\ ~IsMarker(Index(lines, i))
    /\ reads' = reads \cup {i}
    /\ i' = i + 1
    /\ UNCHANGED <<file, rerun, prev, pc, lines, j, e, out>>

\* a loop iteration on an entry marker taken for the header
ForHeader ==
    /\ pc = "for"
    /\ i < Len(lines)
    /\ IsMarker(Index(lines, i))
    /\ IsHeader(lines, i).val
    /\ reads' = reads \cup {i} \cup IsHeader(lines, i).rd
    /\ i' = i + 1
    /\ UNCHANGED <<file, rerun, prev, pc, lines, j, e, out>>

\* a loop iteration on an entry marker that is reported
ForReport ==
    /\ pc = "for"
    /\ i < Len(lines)
    /\ IsMarker(Index(lines, i))
    /\ ~IsHeader(lines, i).val
    /\ reads' = reads \cup {i} \cup IsHeader(lines, i).rd
    /\ out' = Emit(out, LocationLine(i, Index(lines, i)))
    /\ j' = i - 1
    /\ pc' = "while"
    /\ UNCHANGED <<file, rerun, prev, lines, i, e>>

\* the loop is exhausted
ForEnd ==
    /\ pc = "for"
    /\ i >= Len(lines)
    /\ pc' = "done"
    /\ UNCHANGED <<file, rerun, prev, lines, i, j, e, out, reads>>

\* an iteration of the context walk that consumes the line: lines.pop(j)
WhileStep_pop ==
    /\ pc = "while"
    /\ WalkGuard(lines, j).val
    /\ reads' = reads \cup WalkGuard(lines, j).rd
    /\ out' = Emit(out, ContextLine(Index(lines, j)))
    /\ lines' = SubSeq(lines, 1, j) \o SubSeq(lines, j + 2, Len(lines))
    /\ j' = WalkNext(j)
    /\ UNCHANGED <<file, rerun, prev, pc, i, e>>

\* an iteration of the context walk
WhileStep ==
    /\ pc = "while"
    /\ WalkGuard(lines, j).val
    /\ reads' = reads \cup WalkGuard(lines, j).rd
    /\ out' = Emit(out, ContextLine(Index(lines, j)))
    /\ j' = WalkNext(j)
    /\ UNCHANGED <<file, rerun, prev, pc, lines, i, e>>

\* the context walk stops; the loop moves on
WhileEnd ==
    /\ pc = "while"
    /\ ~WalkGuard(lines, j).val
    /\ reads' = reads \cup WalkGuard(lines, j).rd
    /\ i' = i + 1
    /\ pc' = "for"
    /\ UNCHANGED <<file, rerun, prev, lines, j, e, out>>

\* the script is executed a second time on the same path
Rerun ==
    /\ pc = "done"
    /\ ~rerun
    /\ rerun' = TRUE
    /\ prev' = out
    /\ pc' = "try"
    /\ lines' = <<>>
    /\ i' = 0
    /\ j' = 0
    /\ e' = <<>>
    /\ out' = <<>>
    /\ reads' = {}
    /\ UNCHANGED file

Step ==
    \/ ReadLines
    \/ OpenFails
    \/ PrintError
    \/ ForOther
    \/ ForHeader
    \/ ForReport
    \/ ForEnd
    \/ WhileStep
    \/ WhileEnd

Next == Step \/ Rerun

Spec == Init /\ [][Next]_vars

\* a running script always takes its next step
FairSpec == Spec /\ WF_vars(Step)

----------------------------------------------------------------------------
(* Vocabulary of the properties.  Indices k are zero-based, as in the      *)
(* script; lines[k + 1] is the line at index k.                            *)

\* the scan of a readable catalog has run to completion
Scanned == pc = "done" /\ file.status = "ok"

LineIndices == 0 .. (Len(lines) - 1)

\* the trimmed content of line k equals `msgstr ""`
EntryMarkerAt(k) == Strip(lines[k + 1]) = MsgstrEmpty

\* k > 0 and the trimmed content of line k - 1 equals `msgid ""`
HeaderAt(k) == k > 0 /\ Strip(lines[k]) = MsgidEmpty

Reportable(k) == EntryMarkerAt(k) /\ ~HeaderAt(k)

Reportables == {k \in LineIndices : Reportable(k)}

\* the text `Line <n>: msgstr ""`
LineText(n) == <<"L", "i", "n", "e", " ">> \o ToStr(n) \o <<":", " ">> \o MsgstrEmpty

\* the text `  Context: <trimmed content>`
ContextText(line) ==
    <<" ", " ", "C", "o", "n", "t", "e", "x", "t", ":", " ">> \o Strip(line)

IsLocationText(s) == StartsWith(s, <<"L", "i", "n", "e", " ">>)

IsContextText(s) == StartsWith(s, <<" ", " ", "C", "o", "n", "t", "e", "x", "t", ":", " ">>)

Occurrences(o, s) == {p \in DOMAIN o : o[p] = s}

LocationPositions == {p \in DOMAIN out : IsLocationText(out[p])}

HasLineNo(s) ==
    \E n \in 1 .. Len(lines) : StartsWith(s, <<"L", "i", "n", "e", " ">> \o ToStr(n) \o <<":", " ">>)

\* the line number a location line carries
LineNo(s) ==
    CHOOSE n \in 1 .. Len(lines) : StartsWith(s, <<"L", "i", "n", "e", " ">> \o ToStr(n) \o <<":", " ">>)

\* length of the maximal run of msgid-prefixed lines that ends at index k - 1
RunLength(k) ==
    CHOOSE c \in 0 .. k :
        /\ \A d \in 1 .. c : StartsWith(lines[k - d + 1], W_msgid)
        /\ (c = k \/ ~StartsWith(lines[k - c], W_msgid))

\* position p of out closes a block: the output ends there or a location line follows
BlockEndsAt(p) == p = Len(out) \/ IsLocationText(out[p + 1])

----------------------------------------------------------------------------
(* Properties *)

\* C1 (completeness of reporting): when the scan of a loaded catalog has
\* finished, every index k whose trimmed line is `msgstr ""` and that is not
\* (k > 0 with the trimmed line k - 1 equal to `msgid ""`) has exactly one
\* location line `Line <k+1>: msgstr ""` in the output.
C1_Completeness ==
    Scanned =>
        \A k \in LineIndices :
            Reportable(k) => Cardinality(Occurrences(out, LineText(k + 1))) = 1

\* C1 witness: a finished scan reported a marker that only matches once trimmed
C1_Witness ==
    /\ Scanned
    /\ \E k \in LineIndices :
        /\ Reportable(k)
        /\ k > 0
        /\ lines[k + 1] # L_msgstr_empty
        /\ Cardinality(Occurrences(out, LineText(k + 1))) = 1

\* C2 (soundness of reporting): every location line ever printed carries the
\* number of a line whose trimmed content is `msgstr ""`; a line
\* `msgstr "Bonjour"` is never reported.
C2_Soundness ==
    \A p \in DOMAIN out :
        IsLocationText(out[p]) =>
            \E k \in LineIndices :
                /\ out[p] = <<"L", "i", "n", "e", " ">> \o ToStr(k + 1) \o <<":", " ">>
                              \o Strip(lines[k + 1])
                /\ Strip(lines[k + 1]) = MsgstrEmpty

\* C2 witness: a finished scan printed a location line for a catalog that also
\* holds a translated entry
C2_Witness ==
    /\ Scanned
    /\ LocationPositions # {}
    /\ \E k \in LineIndices : lines[k + 1] = L_msgstr_bonjour

\* C3 (header suppression): the loop iteration on an entry marker at k > 0
\* whose predecessor trims to `msgid ""` prints nothing and moves straight to
\* the next line, wherever in the file it is; no location line for it is ever
\* in the output; a catalog that is only the header pair has empty output.
C3_HeaderSuppression ==
    /\ [][(pc = "for" /\ i < Len(lines) /\ EntryMarkerAt(i) /\ HeaderAt(i))
            => (out' = out /\ pc' = "for" /\ i' = i + 1)]_vars
    /\ [](\A k \in LineIndices :
            (EntryMarkerAt(k) /\ HeaderAt(k)) => Occurrences(out, LineText(k + 1)) = {})
    /\ [](file.lines = HeaderPair => out = <<>>)

\* C3 witness: the loop has just passed a suppressed marker that is not at the
\* top of the file
C3_Witness ==
    /\ pc = "for"
    /\ i > 2
    /\ EntryMarkerAt(i - 1)
    /\ HeaderAt(i - 1)

\* C4 (context lines): after the scan, the location line of every reported
\* marker k is followed by exactly the maximal contiguous run of lines
\* k-1, k-2, ... whose untrimmed text starts with `msgid`, each printed as
\* `  Context: <trimmed>`, bottom-up, and the block ends after them.
C4_ContextRun ==
    Scanned =>
        \A k \in Reportables :
            \E p \in Occurrences(out, LineText(k + 1)) :
                /\ p + RunLength(k) <= Len(out)
                /\ \A d \in 1 .. RunLength(k) : out[p + d] = ContextText(lines[k - d + 1])
                /\ BlockEndsAt(p + RunLength(k))

\* C4 witness: a reported marker preceded by two msgid-prefixed lines, printed
\* later-in-file first
C4_Witness ==
    /\ Scanned
    /\ \E k \in Reportables :
        /\ RunLength(k) >= 2
        /\ \E p \in Occurrences(out, LineText(k + 1)) :
            /\ out[p + 1] = ContextText(lines[k])
            /\ out[p + 2] = ContextText(lines[k - 1])

\* C5 (ordering and block structure): at every moment the output of a readable
\* catalog consists of location and context lines only; location lines carry
\* strictly increasing line numbers; every context line follows a location
\* line and is the d-th predecessor of that block's marker, d being its
\* distance from the location line; after the scan there is one block per
\* non-header entry marker.
C5_BlockStructure ==
    /\ \A p \in DOMAIN out : file.status = "ok" => (IsLocationText(out[p]) \/ IsContextText(out[p]))
    /\ \A p \in LocationPositions : HasLineNo(out[p])
    /\ \A p, q \in LocationPositions : p < q => LineNo(out[p]) < LineNo(out[q])
    /\ \A q \in DOMAIN out :
        IsContextText(out[q]) =>
            \E p \in LocationPositions :
                /\ p < q
                /\ \A r \in (p + 1) .. q : IsContextText(out[r])
                /\ LineNo(out[p]) - (q - p) >= 1
                /\ out[q] = ContextText(lines[LineNo(out[p]) - (q - p)])
    /\ Scanned => Cardinality(LocationPositions) = Cardinality(Reportables)

\* C5 witness: a finished scan printed two blocks, the second with a context line
C5_Witness ==
    /\ Scanned
    /\ Cardinality(LocationPositions) >= 2
    /\ IsContextText(out[Len(out)])

\* C6 (error outcome): when opening, reading or decoding the catalog fails, the
\* script never ends on an uncaught exception, prints nothing before the
\* handler runs, ends with the error's description as its whole output
\* (printed once, no location or context line), and does reach its end.
C6_ErrorOutcome ==
    /\ [](file.status # "ok" =>
            /\ pc \in {"try", "except", "done"}
            /\ pc # "done" => out = <<>>
            /\ pc = "done" => (out = <<Describe(file.status)>> /\ e = Describe(file.status))
            /\ \A p \in DOMAIN out : ~IsLocationText(out[p]) /\ ~IsContextText(out[p]))
    /\ ((file.status # "ok" /\ pc = "try") ~> (pc = "done"))

\* C6 witness: the script ended after printing the description of a decoding error
C6_Witness ==
    /\ file.status = "undecodable"
    /\ pc = "done"
    /\ Len(out) = 1
    /\ out[1] = e

\* indices of the entries of a catalog whose msgstr is empty (the header's
\* own msgstr is at index 1)
EmptyEntries == {k \in 2 .. (Len(lines) - 1) : Strip(lines[k + 1]) = MsgstrEmpty}

\* C7 (header plus single-line entries): for the header pair followed by
\* single-line entries, the finished scan printed one block per entry with an
\* empty msgstr and nothing else, each block being the location line
\* `Line <n>: msgstr ""` followed by exactly one context line, the entry's own
\* msgid; header plus `msgid "Hello"` / `msgstr ""` gives exactly
\* `Line 4: msgstr ""`, `  Context: msgid "Hello"`.
C7_CatalogBlocks ==
    /\ (Scanned /\ lines \in CatalogTexts) =>
        /\ Cardinality(LocationPositions) = Cardinality(EmptyEntries)
        /\ Len(out) = 2 * Cardinality(EmptyEntries)
        /\ \A k \in EmptyEntries :
            \E p \in Occurrences(out, LineText(k + 1)) :
                /\ p + 1 <= Len(out)
                /\ out[p + 1] = <<" ", " ", "C", "o", "n", "t", "e", "x", "t", ":", " ">>
                                  \o SubSeq(lines[k], 1, Len(lines[k]) - 1)
    /\ (Scanned /\ lines = HeaderPair \o <<L_msgid_hello, L_msgstr_empty>>) =>
        out = << <<"L", "i", "n", "e", " ", "4", ":", " ">> \o MsgstrEmpty,
                 <<" ", " ", "C", "o", "n", "t", "e", "x", "t", ":", " ">> \o W_msgid \o W_hello >>

\* C7 witness: a finished scan of a catalog with two untranslated entries
C7_Witness ==
    /\ Scanned
    /\ lines \in CatalogTexts
    /\ Cardinality(EmptyEntries) = 2
    /\ Len(out) = 4

\* C8 (determinism, read-only catalog): the catalog on disk never changes; the
\* loaded list equals the catalog's lines for as long as the scan uses it; the
\* second execution ends with the same output as the first.
C8_Deterministic ==
    /\ [][file' = file]_vars
    /\ []((file.status = "ok" /\ pc \in {"for", "while", "done"}) => lines = file.lines)
    /\ []((rerun /\ pc = "done") => out = prev)

\* C8 witness: the second execution finished with a non-trivial report
C8_Witness ==
    /\ rerun
    /\ Scanned
    /\ Len(out) >= 3
    /\ out = prev

\* C9 (termination): every execution reaches its end; the loop counter only
\* moves forward one line at a time and ends at the length of the list, having
\* read every line; the context walk decreases its position by one per step,
\* stays within [-1, i - 1] (so at most i steps for a marker at i), and ends
\* at the start of the file or at a line that does not start with `msgid`.
C9_Termination ==
    /\ (pc = "try") ~> (pc = "done")
    /\ [][(pc \in {"for", "while"}) => (i' = i \/ (i' = i + 1 /\ i < Len(lines)))]_vars
    /\ [](Scanned => (i = Len(lines) /\ LineIndices \subseteq reads))
    /\ [][(pc = "while" /\ pc' = "while") => j' = j - 1]_vars
    /\ [](pc = "while" => (j >= -1 /\ j <= i - 1 /\ Len(out) >= i - j))
    /\ [][(pc = "while" /\ pc' # "while")
            => (j = -1 \/ ~StartsWith(lines[j + 1], W_msgid))]_vars

\* C9 witness: a finished scan of a full-length catalog whose last walk ran
\* down to the start of the file
C9_Witness ==
    /\ Scanned
    /\ Len(lines) >= 3
    /\ j = -1
    /\ Len(out) >= 3

\* C10 (start of file): no subscript below 0 (or past the end) is ever used on
\* the list; an entry marker at index 0 is reported as `Line 1: msgstr ""`
\* with no context line; when every line before a reported marker k starts
\* with `msgid`, its block has k context lines and the last one is line 0.
C10_StartOfFile ==
    /\ \A k \in reads : k >= 0 /\ k < Len(lines)
    /\ (Scanned /\ Len(lines) >= 1 /\ EntryMarkerAt(0)) =>
        /\ Len(out) >= 1
        /\ out[1] = LineText(1)
        /\ BlockEndsAt(1)
    /\ Scanned =>
        \A k \in Reportables :
            (k >= 1 /\ \A d \in 1 .. k : StartsWith(lines[d], W_msgid)) =>
                \E p \in Occurrences(out, LineText(k + 1)) :
                    /\ p + k <= Len(out)
                    /\ out[p + k] = ContextText(lines[1])
                    /\ BlockEndsAt(p + k)

\* C10 witness: a marker at index 0 was reported although the last line of the
\* file trims to `msgid ""`
C10_Witness ==
    /\ Scanned
    /\ Len(lines) >= 2
    /\ EntryMarkerAt(0)
    /\ Strip(lines[Len(lines)]) = MsgidEmpty
    /\ out[1] = LineText(1)

====
